---- MODULE Spec2Model ----
(***************************************************************************)
(* A model of src/script/transcribe_summarize.py: the masking rules, the   *)
(* filename sanitizer, the chunked Gemini transcriber with its caches, the *)
(* output writer, the run log and the per-file pipeline of main().         *)
(*                                                                         *)
(* Text is a sequence of one-character tokens.  ASCII characters are       *)
(* themselves; a Japanese character is written as a "J_..." token, a       *)
(* newline as "LF" and a carriage return as "CR".                          *)
(***************************************************************************)
EXTENDS Integers, Sequences, FiniteSets, TLC

(***************************************************************************)
(* Characters and character classes of Python's re (str patterns).         *)
(***************************************************************************)
Digit == {"0", "1", "2", "3", "4", "5", "6", "7", "8", "9"}

\* \s : the whitespace characters that occur in the model's texts
Whitespace == {" ", "LF", "CR"}

Letters ==
  {"a", "b", "c", "d", "e", "i", "l", "m", "n", "o", "p", "r", "s", "t", "u",
   "x", "y", "A", "C", "D", "E", "G", "I", "K", "M", "N", "P", "S", "V", "W"}

Punct ==
  {"@", ".", "-", "_", "[", "]", ":", "\\", "/", "*", "?", "\"", "<", ">", "|", "#"}

\* the Japanese characters the masking rules name, one token per character
Kana ==
  {"J_se", "J_ki", "J_yu", "J_ri", "J_te", "J_i", "J_ko", "J_choon", "J_do",
   "J_pa", "J_su", "J_wa", "J_ha", "J_ga", "J_no", "J_fullcolon"}

Kanji ==
  {"J_kuchi", "J_za", "J_ban", "J_gou", "J_an", "J_shou", "J_hoku", "J_kai",
   "J_dou", "J_tou", "J_kyou", "J_to", "J_dai", "J_saka", "J_fu", "J_ken",
   "J_na", "J_mae", "J_yama", "J_ta", "J_ku"}

Chars == Digit \cup Whitespace \cup Letters \cup Punct \cup Kana \cup Kanji

\* \S
NonSpace == Chars \ Whitespace

\* . (no DOTALL flag): any character but the newline
Dot == Chars \ {"LF"}

\* the literal placeholder "[MASKED]"
MASKED == <<"[", "M", "A", "S", "K", "E", "D", "]">>

\* the upper limit of the quantifiers +, * and {n,}: none
Unbounded == -1

(***************************************************************************)
(* A regular expression of the program is an ordered list of branches      *)
(* (the alternatives, in the order the backtracking matcher tries them);   *)
(* a branch is a sequence of greedy repetitions of a character class.      *)
(***************************************************************************)
Rep(cls, lo, hi) == [cls |-> cls, min |-> lo, max |-> hi]

One(c) == Rep({c}, 1, 1)

\* a literal string: one atom per character
Lit(s) == [j \in 1..Len(s) |-> One(s[j])]

Min(S) == CHOOSE x \in S : \A y \in S : x <= y

\* the element of a set of one element
Only(S) == CHOOSE x \in S : TRUE

Max(S) == CHOOSE x \in S : \A y \in S : y <= x

\* the length, at most hi (when hi is a limit), of the run of characters of cls
\* that starts at t[i]
RunLen(cls, t, i, hi) ==
  LET left == Len(t) - i + 1
      lim == IF hi < 0 \/ left < hi THEN left ELSE hi
      stops == {j \in 0..(lim - 1) : t[i + j] \notin cls}
  IN  IF stops = {} THEN (IF lim < 0 THEN 0 ELSE lim) ELSE Min(stops)

(***************************************************************************)
(* MatchFrom(atoms, k, g, t, i): the backtracking match of atoms[k..] on t *)
(* from position i.  <<>> when there is none; otherwise <<e, ge>>: the     *)
(* match ends before position e, and group 1 (atoms 1..g) ends before ge.  *)
(* A greedy repetition tries its longest run first and gives back one      *)
(* character at a time, so it settles on the largest count, within its     *)
(* limits, after which the rest of the branch matches.                     *)
(***************************************************************************)
RECURSIVE MatchFrom(_, _, _, _, _)
MatchFrom(atoms, k, g, t, i) ==
  IF k > Len(atoms) THEN <<i, i>>
  ELSE LET n == RunLen(atoms[k].cls, t, i, atoms[k].max)
           fits == {c \in atoms[k].min..n :
                      MatchFrom(atoms, k + 1, g, t, i + c) # <<>>}
       IN  IF fits = {} THEN <<>>
           ELSE LET c == Max(fits)
                    r == MatchFrom(atoms, k + 1, g, t, i + c)
                IN  IF k = g THEN <<r[1], i + c>> ELSE r

\* the first branch, in order, that matches at position i
RECURSIVE MatchBranches(_, _, _, _)
MatchBranches(rule, b, t, i) ==
  IF b > Len(rule.branches) THEN <<>>
  ELSE LET r == MatchFrom(rule.branches[b], 1, rule.group[b], t, i)
       IN  IF r # <<>> THEN r ELSE MatchBranches(rule, b + 1, t, i)

(***************************************************************************)
(* A left-to-right scan of a text of length n.  step[p] is the position    *)
(* the scan moves to from position p (step[p] > p; n + 1 is the end).      *)
(* Visited(step, n) is the set of positions in 1..n the scan stops at,     *)
(* found by doubling the stride.                                           *)
(***************************************************************************)
RECURSIVE Stops(_, _, _, _)
Stops(seen, jump, n, stride) ==
  LET more == seen \cup {jump[p] : p \in seen}
  IN  IF stride > n THEN more
      ELSE UNION {Stops(more, twice, n, 2 * stride) :
                    twice \in {[p \in DOMAIN jump |-> jump[jump[p]]]}}

Visited(step, n) ==
  IF n = 0 THEN {}
  ELSE UNION {Stops({1}, jump, n, 1) :
                jump \in {[p \in 1..(n + 1) |-> IF p = n + 1 THEN p ELSE step[p]]}}
         \ {n + 1}

\* the concatenation of pieces[lo..hi]
RECURSIVE Flatten(_, _, _)
Flatten(pieces, lo, hi) ==
  IF lo > hi THEN <<>>
  ELSE IF lo = hi THEN pieces[lo]
  ELSE LET mid == (lo + hi) \div 2
       IN  Flatten(pieces, lo, mid) \o Flatten(pieces, mid + 1, hi)

(***************************************************************************)
(* re.subn(rule, repl, t): every non-overlapping match, leftmost first, is *)
(* replaced by group 1 (when the replacement starts with \1) followed by   *)
(* rule.repl; the scan resumes where the match ended.  No rule of the      *)
(* program matches the empty string.                                       *)
(***************************************************************************)
Replaced(rule, t, m, at) ==
  LET n == Len(t)
  IN  [text |-> Only({Flatten(piece, 1, n) :
                        piece \in {[p \in 1..n |->
                                      IF p \notin at THEN <<>>
                                      ELSE IF m[p] = <<>> THEN <<t[p]>>
                                      ELSE (IF rule.keep THEN SubSeq(t, p, m[p][2] - 1)
                                            ELSE <<>>) \o rule.repl]}}),
       n |-> Cardinality({p \in at : m[p] # <<>>})]

Scanned(rule, t, m) ==
  Only({Replaced(rule, t, m, at) :
          at \in {Visited([p \in 1..Len(t) |-> IF m[p] = <<>> THEN p + 1 ELSE m[p][1]],
                          Len(t))}})

Subn(rule, t) ==
  Only({Scanned(rule, t, m) :
          m \in {[p \in 1..Len(t) |-> MatchBranches(rule, 1, t, p)]}})

Sub(rule, t) == Subn(rule, t).text

\* a rule whose branches hold no group
Plain(branches, repl) ==
  [branches |-> branches, group |-> [b \in DOMAIN branches |-> 0],
   keep |-> FALSE, repl |-> repl]

\* keyword-anchored: each branch is keyword ++ tail and group 1 is its first
\* groupLen[b] atoms; the replacement is \1 followed by repl
Keyed(branches, groupLen, repl) ==
  [branches |-> branches, group |-> groupLen, keep |-> TRUE, repl |-> repl]

(***************************************************************************)
(* mask_sensitive_info: eight rules applied in order, each to the result   *)
(* of the one before.                                                      *)
(***************************************************************************)
\* [はがの:：\s]
KeywordSep == {"J_ha", "J_ga", "J_no", ":", "J_fullcolon"} \cup Whitespace

\* [-\s]
DashOrSpace == {"-"} \cup Whitespace

\* \S+@\S+\.\S+
EmailRule ==
  Plain(<< <<Rep(NonSpace, 1, Unbounded), One("@"), Rep(NonSpace, 1, Unbounded),
             One("."), Rep(NonSpace, 1, Unbounded)>> >>, MASKED)

\* \d{4}[-\s]?\d{4}[-\s]?\d{4}[-\s]?\d{4}
CardRule ==
  Plain(<< <<Rep(Digit, 4, 4), Rep(DashOrSpace, 0, 1), Rep(Digit, 4, 4),
             Rep(DashOrSpace, 0, 1), Rep(Digit, 4, 4), Rep(DashOrSpace, 0, 1),
             Rep(Digit, 4, 4)>> >>, MASKED)

\* 0\d{1,4}[-\s]?\d{1,4}[-\s]?\d{3,4}
PhoneRule ==
  Plain(<< <<One("0"), Rep(Digit, 1, 4), Rep(DashOrSpace, 0, 1), Rep(Digit, 1, 4),
             Rep(DashOrSpace, 0, 1), Rep(Digit, 3, 4)>> >>, MASKED)

SecurityCodeKeywords ==
  << <<"J_se", "J_ki", "J_yu", "J_ri", "J_te", "J_i", "J_ko", "J_choon", "J_do">>,
     <<"J_se", "J_ki", "J_yu", "J_ri", "J_te", "J_i", "J_choon", "J_ko", "J_choon", "J_do">>,
     <<"C", "V", "V">>,
     <<"C", "V", "C">> >>

\* (セキュリティコード|セキュリティーコード|CVV|CVC)[はがの:：\s]*\d{3,4}  ->  \1[MASKED]
SecurityCodeRule ==
  Keyed([b \in DOMAIN SecurityCodeKeywords |->
           Lit(SecurityCodeKeywords[b])
             \o <<Rep(KeywordSep, 0, Unbounded), Rep(Digit, 3, 4)>>],
        [b \in DOMAIN SecurityCodeKeywords |-> Len(SecurityCodeKeywords[b])],
        MASKED)

AccountKeywords ==
  << <<"J_kuchi", "J_za", "J_ban", "J_gou">>, <<"J_kuchi", "J_za">> >>

\* (口座番号|口座)[はがの:：\s]*\d{4,}  ->  \1[MASKED]
AccountRule ==
  Keyed([b \in DOMAIN AccountKeywords |->
           Lit(AccountKeywords[b])
             \o <<Rep(KeywordSep, 0, Unbounded), Rep(Digit, 4, Unbounded)>>],
        [b \in DOMAIN AccountKeywords |-> Len(AccountKeywords[b])],
        MASKED)

PasswordKeywords ==
  << <<"J_pa", "J_su", "J_wa", "J_choon", "J_do">>,
     <<"J_an", "J_shou", "J_ban", "J_gou">>,
     <<"P", "I", "N">> >>

\* (パスワード|暗証番号|PIN)[はがの:：\s]*\S+  ->  \1[MASKED]
PasswordRule ==
  Keyed([b \in DOMAIN PasswordKeywords |->
           Lit(PasswordKeywords[b])
             \o <<Rep(KeywordSep, 0, Unbounded), Rep(NonSpace, 1, Unbounded)>>],
        [b \in DOMAIN PasswordKeywords |-> Len(PasswordKeywords[b])],
        MASKED)

\* (北海道|東京都|(?:京都|大阪)府|.{2,3}県)\S{2,}
AddressRule ==
  Plain(<< Lit(<<"J_hoku", "J_kai", "J_dou">>) \o <<Rep(NonSpace, 2, Unbounded)>>,
           Lit(<<"J_tou", "J_kyou", "J_to">>) \o <<Rep(NonSpace, 2, Unbounded)>>,
           Lit(<<"J_kyou", "J_to", "J_fu">>) \o <<Rep(NonSpace, 2, Unbounded)>>,
           Lit(<<"J_dai", "J_saka", "J_fu">>) \o <<Rep(NonSpace, 2, Unbounded)>>,
           <<Rep(Dot, 2, 3), One("J_ken"), Rep(NonSpace, 2, Unbounded)>> >>,
        MASKED)

\* (名前[はがの:：\s]*)\S+  ->  \1[MASKED]
NameRule ==
  Keyed(<< Lit(<<"J_na", "J_mae">>)
             \o <<Rep(KeywordSep, 0, Unbounded), Rep(NonSpace, 1, Unbounded)>> >>,
        <<3>>, MASKED)

MaskRules ==
  <<EmailRule, CardRule, PhoneRule, SecurityCodeRule, AccountRule, PasswordRule,
    AddressRule, NameRule>>

\* the text after rules k.. of MaskRules, and the replacements they made
RECURSIVE ApplyRules(_, _)
ApplyRules(t, k) ==
  IF k > Len(MaskRules) THEN [text |-> t, n |-> 0]
  ELSE LET one == Subn(MaskRules[k], t)
           rest == ApplyRules(one.text, k + 1)
       IN  [text |-> rest.text, n |-> one.n + rest.n]

mask_sensitive_info(text) == ApplyRules(text, 1).text

\* the replacements the rules of mask_sensitive_info perform on text
Replacements(text) == ApplyRules(text, 1).n

\* whether sub occurs in t at position i
OccursAt(t, sub, i) ==
  /\ i + Len(sub) - 1 <= Len(t)
  /\ \A j \in 1..Len(sub) : t[i + j - 1] = sub[j]

\* str.count(sub): the non-overlapping occurrences of sub, leftmost first
Count(t, sub) ==
  LET n == Len(t)
      step == [p \in 1..n |-> IF OccursAt(t, sub, p) THEN p + Len(sub) ELSE p + 1]
  IN  Cardinality({p \in Visited(step, n) : OccursAt(t, sub, p)})

(***************************************************************************)
(* sanitize_filename.  An optional string (None or a text) is a record.    *)
(***************************************************************************)
MAX_FILENAME_LENGTH == 50

None == [isNone |-> TRUE, text |-> <<>>]

Some(t) == [isNone |-> FALSE, text |-> t]

\* "untitled_summary"
UNTITLED ==
  <<"u", "n", "t", "i", "t", "l", "e", "d", "_", "s", "u", "m", "m", "a", "r", "y">>

\* [\\/:*?"<>|]
Illegal == {"\\", "/", ":", "*", "?", "\"", "<", ">", "|"}

\* the characters of strip("_- ")
Separator == {"_", "-", " "}

\* str.strip(chars): without the leading and the trailing characters of cls
Strip(t, cls) ==
  LET keep == {j \in 1..Len(t) : t[j] \notin cls}
  IN  IF keep = {} THEN <<>> ELSE SubSeq(t, Min(keep), Max(keep))

\* t[:n]
Prefix(t, n) == SubSeq(t, 1, IF Len(t) < n THEN Len(t) ELSE n)

\* re.sub(r'[\\/:*?"<>|]', "", text)
IllegalRule == Plain(<< <<Rep(Illegal, 1, 1)>> >>, <<>>)

\* re.sub(r"[\s]+", "_", text)
WhitespaceRunRule == Plain(<< <<Rep(Whitespace, 1, Unbounded)>> >>, <<"_">>)

\* re.sub(r"[_\-]{2,}", "_", text)
SeparatorRunRule == Plain(<< <<Rep({"_", "-"}, 2, Unbounded)>> >>, <<"_">>)

sanitize_filename(filename_suggestion, max_length) ==
  IF filename_suggestion.isNone \/ filename_suggestion.text = <<>> THEN UNTITLED
  ELSE LET stripped == Strip(filename_suggestion.text, Whitespace)
           legal == Sub(IllegalRule, stripped)
           joined == Sub(WhitespaceRunRule, legal)
           collapsed == Sub(SeparatorRunRule, joined)
           trimmed == Strip(collapsed, Separator)
           text == Prefix(trimmed, max_length)
       IN  IF text = <<>> THEN UNTITLED ELSE text

(***************************************************************************)
(* Files hold text.  open(path, "w") writes a str as it is (os.linesep is  *)
(* "\n" on the platforms the program runs on); open(path, "r") reads with  *)
(* universal newlines: "\r\n" and a lone "\r" both arrive as "\n".         *)
(***************************************************************************)
\* a file read as it was stored, without the translation of newlines
ReadRaw(stored) == stored

NewlineRule == Plain(<< <<One("CR"), Rep({"LF"}, 0, 1)>> >>, <<"LF">>)

ReadText(stored) == Sub(NewlineRule, stored)

WriteText(text) == text

\* f with key k bound to v (a file created or overwritten)
Put(f, k, v) == (k :> v) @@ f

\* f without key k (a file removed or moved away)
Drop(f, k) == [x \in DOMAIN f \ {k} |-> f[x]]

(***************************************************************************)
(* The transcription backends.  An audio file's content is its duration    *)
(* the words spoken in it and its creation date (YYYYMMDD, what            *)
(* stat().st_ctime formats to); what is uploaded to Gemini is a segment of *)
(* one, complete or cut short by an interrupted export.  A backend that    *)
(* answers returns the words it was given to hear: the whole of them, or   *)
(* (a cut-short file) all but the last.                                    *)
(***************************************************************************)
Audio(dur, words, date) == [duration_ms |-> dur, words |-> words, date |-> date]

Segment(audio, from, to, complete) ==
  [audio |-> audio, start_ms |-> from, end_ms |-> to, complete |-> complete]

WholeFile(audio) == Segment(audio, 0, audio.duration_ms, TRUE)

\* response.candidates[0].content.parts[0].text; <<>> is a response without parts
GeminiText(segment) ==
  IF segment.complete THEN segment.audio.words
  ELSE Prefix(segment.audio.words, Len(segment.audio.words) - 1)

\* result.get("text", "")
WhisperText(audio) == audio.words

(***************************************************************************)
(* transcribe_audio_gemini: the chunk boundaries and the joined result.    *)
(***************************************************************************)
CHUNK_MAX_DURATION_MS == 20 * 60 * 1000

OVERLAP_MS == 1 * 60 * 1000

\* a chunk end that is not clamped to the duration
ChunkEndUnclamped(from, duration, chunk_max) == from + chunk_max

\* a next start that leaves no overlap
NextStartWithoutOverlap(to, overlap_ms) == to

\* end_ms = min(start_ms + CHUNK_MAX_DURATION_MS, duration_ms)
ChunkEnd(from, duration, chunk_max) ==
  IF from + chunk_max < duration THEN from + chunk_max ELSE duration

\* start_ms = max(0, end_ms - OVERLAP_MS)
NextStart(to, overlap_ms) == IF to - overlap_ms > 0 THEN to - overlap_ms ELSE 0

\* "\n\n".join(filter(None, parts))
RECURSIVE JoinFrom(_, _)
JoinFrom(parts, k) ==
  IF k > Len(parts) THEN <<>>
  ELSE LET rest == JoinFrom(parts, k + 1)
       IN  IF parts[k] = <<>> THEN rest
           ELSE IF rest = <<>> THEN parts[k]
           ELSE parts[k] \o <<"LF", "LF">> \o rest

JoinParts(parts) == JoinFrom(parts, 1)

\* the chunks the loop of lines 260-294 makes of a recording, from start_ms on
RECURSIVE ChunksFrom(_, _, _, _)
ChunksFrom(start_ms, duration_ms, chunk_max, overlap_ms) ==
  LET end_ms == ChunkEnd(start_ms, duration_ms, chunk_max)
      next_start == NextStart(end_ms, overlap_ms)
  IN  <<[start_ms |-> start_ms, end_ms |-> end_ms]>>
        \o (IF end_ms = duration_ms \/ next_start >= duration_ms THEN <<>>
            ELSE ChunksFrom(next_start, duration_ms, chunk_max, overlap_ms))

\* what transcribe_audio_gemini returns for a long recording when nothing is
\* cached and nothing fails
Uninterrupted(audio, chunk_max, overlap_ms) ==
  LET chunks == ChunksFrom(0, audio.duration_ms, chunk_max, overlap_ms)
  IN  JoinParts([k \in DOMAIN chunks |->
                   GeminiText(Segment(audio, chunks[k].start_ms, chunks[k].end_ms, TRUE))])

\* the transcript of engine "both": two labelled sections.  The headings
\* "## Whisper（ローカル）の文字起こし結果" and "## Gemini APIの文字起こし結果" are
\* shortened to "## W" and "## G"; each is followed by a blank line.
BothTranscription(whisper_transcription, gemini_transcription) ==
  <<"#", "#", " ", "W", "LF", "LF">> \o whisper_transcription
    \o <<"LF", "LF", "-", "-", "-", "LF", "LF">>
    \o <<"#", "#", " ", "G", "LF", "LF">> \o gemini_transcription

(***************************************************************************)
(* save_markdown and log_processed_file.                                   *)
(***************************************************************************)
DigitChars == <<"0", "1", "2", "3", "4", "5", "6", "7", "8", "9">>

\* str(n) for n >= 0
RECURSIVE Str(_)
Str(n) == IF n < 10 THEN <<DigitChars[n + 1]>>
          ELSE Str(n \div 10) \o <<DigitChars[(n % 10) + 1]>>

MdName(base_name) == base_name \o <<".", "m", "d">>

\* the first name taken as it is, whether or not a file has it
ProbeNone(dir, base_name, markdown_filename, count) == markdown_filename

\* while output_path.exists(): markdown_filename = f"{base_name}_{count}.md"
RECURSIVE Probe(_, _, _, _)
Probe(dir, base_name, markdown_filename, count) ==
  IF markdown_filename \notin DOMAIN dir THEN markdown_filename
  ELSE Probe(dir, base_name, MdName(base_name \o <<"_">> \o Str(count)), count + 1)

\* content_parts: the sections of the document, in order
ContentParts(transcription, proofread, summary) ==
  <<[heading |-> "summary", body |-> summary]>>
    \o (IF proofread # <<>> /\ proofread # transcription
        THEN <<[heading |-> "proofread", body |-> proofread]>> ELSE <<>>)
    \o <<[heading |-> "transcription", body |-> transcription]>>

\* the directory after the call, and the filename returned
save_markdown(dir, transcription, proofread, summary, generated_filename_base, date_prefix) ==
  LET base_name == date_prefix \o <<"_">> \o generated_filename_base
      markdown_filename == Probe(dir, base_name, MdName(base_name), 1)
  IN  [dir |-> Put(dir, markdown_filename,
                   ContentParts(transcription, proofread, summary)),
       markdown_filename |-> markdown_filename]

\* a call that appends nothing
LogNothing(entries, source_audio, output_markdown, status, error_message) == entries

\* the log after the call: one entry appended; processed_at is left out
log_processed_file(entries, source_audio, output_markdown, status, error_message) ==
  Append(entries,
         [source_audio |-> source_audio, output_markdown |-> output_markdown,
          status |-> status,
          error_message |-> IF error_message.isNone \/ error_message.text = <<>>
                            THEN None ELSE error_message])

(***************************************************************************)
(* The state of a run of main().                                           *)
(***************************************************************************)
VARIABLES
  cfg,               \* the environment: engines, ENABLE_MASKING, what is installed,
                     \* and the module's constants
  pc,                \* where main() is: idle, loop, a stage of the file, or ended
  run,               \* the runs started so far
  enable_masking,    \* main's enable_masking, after the forced disabling
  audio_files_to_process,  \* the files of the directory scan still to come
  original_audio_path,     \* the file being processed
  loc,               \* main's locals for the file being processed
  lp,                \* the locals of transcribe_audio_gemini's chunk loop
  processing_dir,    \* audio file name -> audio content
  done_dir,          \* [audio: name -> content, transcripts: stem -> stored text]
  markdown_dir,      \* document filename -> its sections
  short_cache,       \* stem -> stored text of <stem>_transcription.txt beside the source
  chunk_dirs,        \* stem -> [audio: chunk id -> segment, text: chunk id -> stored text]
  remote,            \* the artifacts uploaded to the API and not deleted
  log,               \* the JSONL log: a sequence of entries
  harness,           \* the argument and the results of a function applied on its own
  faults             \* the failures and kills the environment has inflicted so far

cfgVars == <<cfg>>

runVars == <<pc, run, enable_masking, audio_files_to_process, original_audio_path>>

fileVars == <<loc, lp>>

fsVars == <<processing_dir, done_dir, markdown_dir, short_cache, chunk_dirs, remote, log>>

vars == <<cfgVars, runVars, fileVars, fsVars, harness, faults>>

\* the locals of main() at the top of the loop body, with the calls made for
\* the file (none yet), the stages it went through (none yet), the stages
\* after step 1 in which an except clause ran (none yet), the stages in
\* which the claude CLI ended with a non-zero exit code or timed out (none
\* yet) and the text each text backend was sent (nothing yet)
FreshLoc ==
  [transcription |-> <<>>, whisper_transcription |-> <<>>, text_for_llm |-> <<>>,
   masked_count |-> 0, proofread_result |-> <<>>, summary |-> <<>>,
   sanitized_filename_base |-> <<>>, output_markdown_filename |-> None,
   cleanup_temp_dir_on_success |-> FALSE,
   calls |-> [whisper |-> 0, upload |-> 0, generate |-> 0, proofread |-> 0,
              summarize |-> 0, filename |-> 0],
   stages |-> <<>>, caught |-> {}, cli_failed |-> {}, timed_out |-> {},
   sent |-> [proofread |-> None, summarize |-> None, filename |-> None]]

FreshLoop ==
  [duration_ms |-> 0, start_ms |-> 0, end_ms |-> 0, chunk_id |-> 0,
   all_transcriptions |-> <<>>, chunks |-> <<>>, cached |-> {}, uploaded |-> {},
   cache_hit |-> FALSE]

MaxRuns == 2

\* the failures and kills inflicted over an execution are bounded
MaxFaults == 1

\* an outcome other than "ok" is one more failure
Inflict(outcome) ==
  /\ outcome = "ok" \/ faults < MaxFaults
  /\ faults' = IF outcome = "ok" THEN faults ELSE faults + 1

NoHarness == [fn |-> "none"]

EmptyDone == [audio |-> <<>>, transcripts |-> <<>>]

EmptyChunkDir == [audio |-> <<>>, text |-> <<>>]

Stem == original_audio_path.stem

Source == processing_dir[original_audio_path]

Called(what) == [loc EXCEPT !.calls[what] = @ + 1]

Msg(word) == Some(<<word>>)


(***************************************************************************)
(* main(): start-up, lines 452-518.                                        *)
(***************************************************************************)
NoFile == [stem |-> "", ext |-> ""]

\* pathlib.Path(args.audio_processing_dir).name
ProcessingDirName == [stem |-> "processing_dir", ext |-> ""]

needs_gemini ==
  \/ cfg.transcribe_engine \in {"gemini", "both"}
  \/ cfg.proofread_engine = "gemini"
  \/ cfg.summarize_engine = "gemini"

\* the orders in which iterdir() may list the files of S
Orders(S) ==
  {order \in [1..Cardinality(S) -> S] : {order[k] : k \in DOMAIN order} = S}

StartRun ==
  /\ pc \in {"idle", "exit", "aborted", "crashed"}
  /\ run < MaxRuns
  /\ run' = run + 1
  /\ enable_masking' = (cfg.ENABLE_MASKING /\ cfg.transcribe_engine \in {"whisper", "both"})
  /\ loc' = FreshLoc
  /\ lp' = FreshLoop
  /\ original_audio_path' = NoFile
  /\ IF needs_gemini /\ "genai" \notin cfg.installed
     THEN /\ pc' = "exit"
          /\ audio_files_to_process' = <<>>
          /\ UNCHANGED fsVars
     ELSE IF needs_gemini /\ "GOOGLE_API_KEY" \notin cfg.installed
     THEN /\ pc' = "exit"
          /\ audio_files_to_process' = <<>>
          /\ log' = log_processed_file(log, ProcessingDirName, None, "failure",
                                       Msg("GOOGLE_API_KEY not set"))
          /\ UNCHANGED <<processing_dir, done_dir, markdown_dir, short_cache,
                         chunk_dirs, remote>>
     ELSE IF DOMAIN processing_dir = {}
     THEN /\ pc' = "exit"
          /\ audio_files_to_process' = <<>>
          /\ UNCHANGED fsVars
     ELSE /\ pc' = "loop"
          /\ audio_files_to_process' \in Orders(DOMAIN processing_dir)
          /\ UNCHANGED fsVars
  /\ UNCHANGED <<cfg, harness, faults>>

\* for audio_file_path in audio_files_to_process: ... (lines 520-530), or the
\* end of the loop (line 679)
NextFile ==
  /\ pc = "loop"
  /\ IF audio_files_to_process = <<>>
     THEN /\ pc' = "exit"
          /\ UNCHANGED <<audio_files_to_process, original_audio_path, loc, lp>>
     ELSE /\ pc' = "transcribe"
          /\ original_audio_path' = Head(audio_files_to_process)
          /\ audio_files_to_process' = Tail(audio_files_to_process)
          /\ loc' = FreshLoc
          /\ lp' = FreshLoop
  /\ UNCHANGED <<cfg, run, enable_masking, fsVars, harness, faults>>

(***************************************************************************)
(* Step 1: transcription (lines 534-583).  An exception raised in it is    *)
(* logged as transcribe_failure and the loop continues; sys.exit(1) ends   *)
(* the run.                                                                *)
(***************************************************************************)
\* a failure that goes on to the next file without a log entry
TranscribeSkipped(message) ==
  /\ pc' = "loop"
  /\ UNCHANGED log

\* except Exception as e: log_processed_file(..., None, "transcribe_failure", str(e)); continue
TranscribeFailure(message) ==
  /\ log' = log_processed_file(log, original_audio_path, None, "transcribe_failure",
                               message)
  /\ pc' = "loop"

Entered(l, stage) == [l EXCEPT !.stages = Append(@, stage)]

\* an except clause has caught an exception raised in the stage (lines 126,
\* 591, 609, 647, 660, 663)
Caught(l, stage) == [l EXCEPT !.caught = @ \cup {stage}]

\* transcribe_audio_whisper (lines 304-319), called at line 537 or 555
TranscribeWhisper ==
  /\ pc = "transcribe"
  /\ cfg.transcribe_engine \in {"whisper", "both"}
  /\ IF "mlx_whisper" \notin cfg.installed
     THEN /\ UNCHANGED faults
          /\ pc' = "aborted"
          /\ loc' = Entered(loc, "transcribe")
          /\ UNCHANGED log
     ELSE \E outcome \in {"ok", "error"} :
            /\ Inflict(outcome)
            /\ LET l == [Entered(loc, "transcribe") EXCEPT !.calls.whisper = @ + 1]
                   text == WhisperText(Source)
               IN  IF outcome = "error"
                   THEN /\ loc' = l
                        /\ TranscribeFailure(Msg("whisper failed"))
                   ELSE IF cfg.transcribe_engine = "whisper"
                   THEN /\ loc' = [l EXCEPT !.transcription = text]
                        /\ pc' = "save_transcript"
                        /\ UNCHANGED log
                   ELSE /\ loc' = [l EXCEPT !.whisper_transcription = text]
                        /\ pc' = "gemini"
                        /\ UNCHANGED log
  /\ UNCHANGED <<cfg, run, enable_masking, audio_files_to_process, original_audio_path,
                 lp, processing_dir, done_dir, markdown_dir, short_cache, chunk_dirs,
                 remote, harness>>

\* raise ValueError(f"Unknown transcribe engine: {transcribe_engine}") (line 576)
TranscribeUnknown ==
  /\ pc = "transcribe"
  /\ cfg.transcribe_engine \notin {"whisper", "gemini", "both"}
  /\ loc' = Entered(loc, "transcribe")
  /\ TranscribeFailure(Msg("Unknown transcribe engine"))
  /\ UNCHANGED <<cfg, run, enable_masking, audio_files_to_process, original_audio_path,
                 lp, processing_dir, done_dir, markdown_dir, short_cache, chunk_dirs,
                 remote, harness, faults>>

AtGemini ==
  \/ pc = "transcribe" /\ cfg.transcribe_engine = "gemini"
  \/ pc = "gemini"

\* loc on entering the Gemini part of step 1
InGemini == IF pc = "transcribe" THEN Entered(loc, "transcribe") ELSE loc

\* transcription = ... (line 548, or lines 567-573 for engine "both")
Transcribed(l, gemini_transcription) ==
  [l EXCEPT !.transcription =
     IF cfg.transcribe_engine = "both"
     THEN BothTranscription(l.whisper_transcription, gemini_transcription)
     ELSE gemini_transcription]

(***************************************************************************)
(* Lines 539-551 (557-566) of main and transcribe_audio_gemini up to its   *)
(* branch on the duration (lines 205-256): a short file is transcribed     *)
(* here, from its cache or by the API; a long one enters the chunk loop.   *)
(***************************************************************************)
TranscribeGemini ==
  /\ AtGemini
  /\ \E outcome \in {"ok", "load_error", "upload_error", "generate_error",
                     "delete_error", "cache_write_error"} :
       /\ Inflict(outcome)
       /\ LET l == InGemini
              long == Source.duration_ms > cfg.CHUNK_MAX_DURATION_MS
              cached == Stem \in DOMAIN short_cache
              upload == WholeFile(Source)
              text == GeminiText(upload)
          IN  IF "pydub" \notin cfg.installed
              THEN /\ outcome = "ok"
                   /\ loc' = l
                   /\ TranscribeFailure(Msg("pydub is required for Gemini transcription"))
                   /\ UNCHANGED <<lp, short_cache, chunk_dirs, remote>>
              ELSE IF outcome = "load_error"
              THEN /\ loc' = l
                   /\ TranscribeFailure(Msg("Could not read audio file"))
                   /\ UNCHANGED <<lp, short_cache, chunk_dirs, remote>>
              ELSE IF long
              THEN /\ outcome = "ok"
                   /\ chunk_dirs' = IF Stem \in DOMAIN chunk_dirs THEN chunk_dirs
                                    ELSE Put(chunk_dirs, Stem, EmptyChunkDir)
                   /\ loc' = [l EXCEPT !.cleanup_temp_dir_on_success = TRUE]
                   /\ lp' = [FreshLoop EXCEPT !.duration_ms = Source.duration_ms,
                                              !.cached = DOMAIN chunk_dirs'[Stem].text]
                   /\ pc' = "chunk"
                   /\ UNCHANGED <<short_cache, remote, log>>
              ELSE IF cached
              THEN /\ outcome = "ok"
                   /\ loc' = Transcribed(l, ReadText(short_cache[Stem]))
                   /\ lp' = [FreshLoop EXCEPT !.duration_ms = Source.duration_ms,
                                              !.cache_hit = TRUE]
                   /\ pc' = "save_transcript"
                   /\ UNCHANGED <<short_cache, chunk_dirs, remote, log>>
              ELSE /\ lp' = [FreshLoop EXCEPT !.duration_ms = Source.duration_ms]
                   /\ UNCHANGED chunk_dirs
                   /\ CASE outcome = "upload_error" ->
                             /\ loc' = [l EXCEPT !.calls.upload = @ + 1]
                             /\ TranscribeFailure(Msg("upload failed"))
                             /\ UNCHANGED <<short_cache, remote>>
                        [] outcome = "generate_error" ->
                             /\ loc' = [l EXCEPT !.calls.upload = @ + 1,
                                                 !.calls.generate = @ + 1]
                             /\ remote' = remote \cup {upload}
                             /\ TranscribeFailure(Msg("generate_content failed"))
                             /\ UNCHANGED short_cache
                        [] outcome = "delete_error" ->
                             /\ loc' = [l EXCEPT !.calls.upload = @ + 1,
                                                 !.calls.generate = @ + 1]
                             /\ remote' = remote \cup {upload}
                             /\ TranscribeFailure(Msg("delete_file failed"))
                             /\ UNCHANGED short_cache
                        [] OTHER ->
                             /\ UNCHANGED remote
                             /\ IF text = <<>>
                                THEN /\ outcome = "ok"
                                     /\ loc' = [l EXCEPT !.calls.upload = @ + 1,
                                                         !.calls.generate = @ + 1]
                                     /\ TranscribeFailure(
                                          Msg("Direct transcription failed or returned an empty response."))
                                     /\ UNCHANGED short_cache
                                ELSE /\ loc' = [Transcribed(l, text) EXCEPT
                                                  !.calls.upload = @ + 1,
                                                  !.calls.generate = @ + 1]
                                     /\ short_cache' =
                                          IF outcome = "cache_write_error" THEN short_cache
                                          ELSE Put(short_cache, Stem, WriteText(text))
                                     /\ pc' = "save_transcript"
                                     /\ UNCHANGED log
  /\ UNCHANGED <<cfg, run, enable_masking, audio_files_to_process, original_audio_path,
                 processing_dir, done_dir, markdown_dir, harness>>

(***************************************************************************)
(* One iteration of the chunk loop of transcribe_audio_gemini (lines       *)
(* 260-294), with the call of transcribe_chunk_gemini (lines 176-202) it   *)
(* makes, and the return after the last chunk (lines 296-297).  The process*)
(* may be killed while a file it opened for writing is still incomplete.   *)
(***************************************************************************)
ChunkOutcomes ==
  {"ok", "read_error", "upload_error", "generate_error", "delete_error",
   "write_error", "killed_in_export", "killed_in_write"}

ChunkIter ==
  /\ pc = "chunk"
  /\ \E outcome \in ChunkOutcomes :
       /\ Inflict(outcome)
       /\ LET end_ms == ChunkEnd(lp.start_ms, lp.duration_ms, cfg.CHUNK_MAX_DURATION_MS)
              id == lp.chunk_id + 1
              dir == chunk_dirs[Stem]
              have_audio == id \in DOMAIN dir.audio
              have_text == id \in DOMAIN dir.text
              \* if not chunk_audio_file_path.exists(): ... export(...)
              audio == IF have_audio THEN dir.audio
                       ELSE Put(dir.audio, id, Segment(Source, lp.start_ms, end_ms, TRUE))
              exported == [dir EXCEPT !.audio = audio]
              reuse == have_text /\ outcome # "read_error"
              part == IF reuse THEN ReadText(dir.text[id]) ELSE GeminiText(audio[id])
              called == [loc EXCEPT !.calls.upload = @ + 1, !.calls.generate = @ + 1]
              all == Append(lp.all_transcriptions, part)
              next_start == NextStart(end_ms, cfg.OVERLAP_MS)
              looped == [lp EXCEPT !.end_ms = end_ms, !.chunk_id = id,
                                   !.all_transcriptions = all,
                                   !.chunks = Append(@, [start_ms |-> lp.start_ms,
                                                         end_ms |-> end_ms]),
                                   !.uploaded = IF reuse THEN @ ELSE @ \cup {id}]
              Continue(l) ==
                IF end_ms = lp.duration_ms \/ next_start >= lp.duration_ms
                THEN /\ lp' = looped
                     /\ loc' = Transcribed(l, JoinParts(all))
                     /\ pc' = "save_transcript"
                ELSE /\ lp' = [looped EXCEPT !.start_ms = next_start]
                     /\ loc' = l
                     /\ pc' = "chunk"
          IN  CASE outcome = "killed_in_export" ->
                     /\ ~have_audio
                     /\ chunk_dirs' = Put(chunk_dirs, Stem,
                          [dir EXCEPT !.audio =
                             Put(dir.audio, id, Segment(Source, lp.start_ms, end_ms, FALSE))])
                     /\ pc' = "crashed"
                     /\ UNCHANGED <<loc, lp, remote, log>>
               [] outcome = "ok" /\ reuse ->
                     /\ chunk_dirs' = Put(chunk_dirs, Stem, exported)
                     /\ Continue(loc)
                     /\ UNCHANGED <<remote, log>>
               [] outcome = "upload_error" /\ ~have_text ->
                     /\ chunk_dirs' = Put(chunk_dirs, Stem, exported)
                     /\ loc' = [loc EXCEPT !.calls.upload = @ + 1]
                     /\ lp' = [lp EXCEPT !.uploaded = @ \cup {id}]
                     /\ TranscribeFailure(Msg("upload failed"))
                     /\ UNCHANGED remote
               [] outcome \in {"generate_error", "delete_error"} /\ ~have_text ->
                     /\ chunk_dirs' = Put(chunk_dirs, Stem, exported)
                     /\ loc' = called
                     /\ lp' = [lp EXCEPT !.uploaded = @ \cup {id}]
                     /\ remote' = remote \cup {audio[id]}
                     /\ TranscribeFailure(Msg(IF outcome = "generate_error"
                                              THEN "generate_content failed"
                                              ELSE "delete_file failed"))
               [] outcome = "killed_in_write" /\ ~have_text ->
                     /\ chunk_dirs' = Put(chunk_dirs, Stem,
                                          [exported EXCEPT !.text = Put(@, id, <<>>)])
                     /\ loc' = called
                     /\ lp' = [lp EXCEPT !.uploaded = @ \cup {id}]
                     /\ pc' = "crashed"
                     /\ UNCHANGED <<remote, log>>
               [] outcome = "write_error" /\ ~have_text ->
                     /\ chunk_dirs' = Put(chunk_dirs, Stem, exported)
                     /\ Continue(called)
                     /\ UNCHANGED <<remote, log>>
               [] (outcome = "ok" /\ ~have_text) \/ (outcome = "read_error" /\ have_text) ->
                     /\ chunk_dirs' = Put(chunk_dirs, Stem,
                                          [exported EXCEPT !.text = Put(@, id, WriteText(part))])
                     /\ Continue(called)
                     /\ UNCHANGED <<remote, log>>
               [] OTHER -> FALSE
  /\ UNCHANGED <<cfg, run, enable_masking, audio_files_to_process, original_audio_path,
                 processing_dir, done_dir, markdown_dir, short_cache, harness>>

\* lines 585-592: the transcript is written into the done directory
SaveTranscript ==
  /\ pc = "save_transcript"
  /\ \E outcome \in {"ok", "io_error"} :
       /\ Inflict(outcome)
       /\ done_dir' = IF outcome = "io_error" THEN done_dir
                   ELSE [done_dir EXCEPT !.transcripts =
                           Put(@, Stem, WriteText(loc.transcription))]
       /\ loc' = IF outcome = "io_error" THEN Caught(loc, "save_transcript") ELSE loc
  /\ pc' = "mask"
  /\ UNCHANGED <<cfg, run, enable_masking, audio_files_to_process, original_audio_path,
                 lp, processing_dir, markdown_dir, short_cache, chunk_dirs, remote,
                 log, harness>>

\* Step 2 (lines 594-603): the text handed to the later stages and the count
\* reported; masked_count is 0 until masking assigns it
Step2(transcription, enabled, count_before) ==
  IF enabled
  THEN LET masked == mask_sensitive_info(transcription)
       IN  [text_for_llm |-> masked, masked_count |-> Count(masked, MASKED)]
  ELSE [text_for_llm |-> transcription, masked_count |-> count_before]

Mask ==
  /\ pc = "mask"
  /\ LET step == Step2(loc.transcription, enable_masking, loc.masked_count)
     IN  loc' = [Entered(loc, "mask") EXCEPT !.text_for_llm = step.text_for_llm,
                                            !.masked_count = step.masked_count]
  /\ pc' = "proofread"
  /\ UNCHANGED <<cfg, run, enable_masking, audio_files_to_process, original_audio_path,
                 lp, fsVars, harness, faults>>

(***************************************************************************)
(* The text backends.  call_claude_cli (lines 81-99) returns the stripped  *)
(* stdout of the CLI, "" after a timeout, and ends the process when the    *)
(* CLI is not installed.                                                   *)
(***************************************************************************)
\* what a proofreading backend may answer to text: the text as it is, or the
\* text with punctuation added
ProofreadAnswers(text) == {text, text \o <<".">>}

\* what a summarizing backend may answer
SummaryAnswers == {<<"s">>}

\* what a backend asked for a filename may answer
TitleAnswers == {<<"t">>}

\* the answers of a CLI that ran to its end, whatever the outcome
ClaudeAnswers(outcome, answers) == {Strip(ans, Whitespace) : ans \in answers}

\* result.stdout.strip(), or "" after a timeout (lines 93-99); a CLI that
\* ends with a non-zero exit code has written an answer or nothing to stdout
ClaudeResult(outcome, answers) ==
  CASE outcome = "timeout" -> {<<>>}
    [] outcome = "exit_code" -> {<<>>} \cup {Strip(ans, Whitespace) : ans \in answers}
    [] OTHER -> {Strip(ans, Whitespace) : ans \in answers}

\* if result.returncode != 0: print("Warning: ...") (lines 90-92), or
\* except subprocess.TimeoutExpired: print("Error: ...") (lines 97-98)
ClaudeExit(l, outcome, stage) ==
  CASE outcome = "exit_code" -> [l EXCEPT !.cli_failed = @ \cup {stage}]
    [] outcome = "timeout" -> [l EXCEPT !.timed_out = @ \cup {stage}]
    [] OTHER -> l

\* the prompt built around text has gone to the backend: f"...{text}" (lines
\* 331-339), prompt_template.replace("{{TRANSCRIPTION}}", text) (line 363),
\* f"...{summary_text[:1000]}..." (lines 111-118, 134-141)
Sent(l, backend, text) == [l EXCEPT !.sent[backend] = Some(text)]

\* proofread_result = text_for_llm (line 606) is what the except clause of
\* line 609 leaves
ProofreadFailure(l, text_for_llm) ==
  Caught([l EXCEPT !.proofread_result = text_for_llm], "proofread")

\* Step 3 (lines 605-610) with proofread_text (lines 326-354)
Proofread ==
  /\ pc = "proofread"
  /\ LET l == Entered(loc, "proofread")
         text == loc.text_for_llm
         entered == [l EXCEPT !.calls.proofread = @ + 1]
         called == Sent(entered, "proofread", text)
     IN  CASE cfg.proofread_engine = "none" ->
                /\ loc' = [l EXCEPT !.proofread_result = text]
                /\ pc' = "summarize"
                /\ UNCHANGED faults
           [] cfg.proofread_engine = "claude" ->
                IF "claude" \notin cfg.installed
                THEN /\ loc' = [entered EXCEPT !.proofread_result = text]
                     /\ pc' = "aborted"
                     /\ UNCHANGED faults
                ELSE \E outcome \in {"ok", "timeout", "exit_code", "error"} :
                       /\ Inflict(outcome)
                       /\ IF outcome = "error"
                          THEN loc' = ProofreadFailure(called, text)
                          ELSE \E result \in ClaudeResult(outcome, ProofreadAnswers(text)) :
                                 loc' = [ClaudeExit(called, outcome, "proofread")
                                           EXCEPT !.proofread_result = result]
                       /\ pc' = "summarize"
           [] cfg.proofread_engine = "gemini" ->
                \E outcome \in {"ok", "error", "empty"} :
                  /\ Inflict(outcome)
                  /\ CASE outcome = "ok" ->
                            \E result \in ProofreadAnswers(text) :
                              loc' = [called EXCEPT !.proofread_result = result]
                       [] outcome = "error" ->
                            loc' = ProofreadFailure(called, text)
                       [] OTHER -> loc' = [called EXCEPT !.proofread_result = text]
                  /\ pc' = "summarize"
           [] OTHER ->
                /\ loc' = [l EXCEPT !.proofread_result = text]
                /\ pc' = "summarize"
                /\ UNCHANGED faults
  /\ UNCHANGED <<cfg, run, enable_masking, audio_files_to_process, original_audio_path,
                 lp, fsVars, harness>>

\* a failure that goes on to the next file without a log entry
SummarySkipped(message) ==
  /\ pc' = "loop"
  /\ UNCHANGED log

\* except Exception as e: log_processed_file(..., output_markdown_filename,
\*   "summary_failure", str(e)); continue   (lines 663-669)
SummaryFailure(message) ==
  /\ log' = log_processed_file(log, original_audio_path, loc.output_markdown_filename,
                               "summary_failure", message)
  /\ pc' = "loop"

\* Step 4 (lines 613-619) with summarize_text (lines 361-376)
Summarize ==
  /\ pc = "summarize"
  /\ \E outcome \in {"ok", "prompt_error", "error", "empty", "timeout", "exit_code"} :
       /\ Inflict(outcome)
       /\ LET l == Entered(loc, "summarize")
              entered == [l EXCEPT !.calls.summarize = @ + 1]
              called == Sent(entered, "summarize", loc.proofread_result)
          IN  IF outcome = "prompt_error"
              THEN /\ loc' = Caught(l, "summarize")
                   /\ SummaryFailure(Msg("No such file or directory"))
              ELSE CASE cfg.summarize_engine = "claude" ->
                          /\ outcome \in {"ok", "timeout", "exit_code"}
                          /\ IF "claude" \notin cfg.installed
                             THEN /\ outcome = "ok"
                                  /\ loc' = entered
                                  /\ pc' = "aborted"
                                  /\ UNCHANGED log
                             ELSE /\ \E result \in ClaudeResult(outcome, SummaryAnswers) :
                                       loc' = [ClaudeExit(called, outcome, "summarize")
                                                 EXCEPT !.summary = result]
                                  /\ pc' = "filename"
                                  /\ UNCHANGED log
                     [] cfg.summarize_engine = "gemini" ->
                          CASE outcome = "ok" ->
                                 /\ \E result \in SummaryAnswers :
                                      loc' = [called EXCEPT !.summary = result]
                                 /\ pc' = "filename"
                                 /\ UNCHANGED log
                            [] outcome = "error" ->
                                 /\ loc' = Caught(called, "summarize")
                                 /\ SummaryFailure(Msg("generate_content failed"))
                            [] outcome = "empty" ->
                                 /\ loc' = Caught(called, "summarize")
                                 /\ SummaryFailure(
                                      Msg("Summarization failed or returned an empty response."))
                            [] OTHER -> FALSE
                     [] OTHER ->
                          /\ outcome = "ok"
                          /\ loc' = Caught(l, "summarize")
                          /\ SummaryFailure(Msg("Unknown summarize engine"))
  /\ UNCHANGED <<cfg, run, enable_masking, audio_files_to_process, original_audio_path,
                 lp, processing_dir, done_dir, markdown_dir, short_cache, chunk_dirs,
                 remote, harness>>

\* Step 5 (lines 621-625) with generate_filename_from_summary (lines 106-153)
GenerateFilename ==
  /\ pc = "filename"
  /\ LET entered == [Entered(loc, "name") EXCEPT !.calls.filename = @ + 1]
         called == Sent(entered, "filename", Prefix(loc.summary, 1000))
         Named(suggestion) ==
           [called EXCEPT !.sanitized_filename_base =
              sanitize_filename(suggestion, MAX_FILENAME_LENGTH)]
         NamedBy(outcome, suggestion) ==
           [ClaudeExit(called, outcome, "name") EXCEPT !.sanitized_filename_base =
              sanitize_filename(suggestion, MAX_FILENAME_LENGTH)]
     IN  IF cfg.summarize_engine = "claude"
         THEN IF "claude" \notin cfg.installed
              THEN loc' = entered /\ pc' = "aborted" /\ UNCHANGED faults
              ELSE \E outcome \in {"ok", "timeout", "exit_code"} :
                     /\ Inflict(outcome)
                     /\ \E name \in ClaudeResult(outcome, TitleAnswers) :
                          loc' = NamedBy(outcome, IF name = <<>> THEN None ELSE Some(name))
                     /\ pc' = "save"
         ELSE \E outcome \in {"ok", "error", "empty"} :
                /\ Inflict(outcome)
                /\ CASE outcome = "ok" ->
                          \E t \in TitleAnswers : loc' = Named(Some(Strip(t, Whitespace)))
                     [] outcome = "error" -> loc' = Caught(Named(None), "name")
                     [] OTHER -> loc' = Named(None)
                /\ pc' = "save"
  /\ UNCHANGED <<cfg, run, enable_masking, audio_files_to_process, original_audio_path,
                 lp, fsVars, harness>>

\* lines 627-638: the document is saved and the success is logged
Save ==
  /\ pc = "save"
  /\ \E outcome \in {"ok", "error"} :
       /\ Inflict(outcome)
       /\ LET l == Entered(loc, "save")
              saved == save_markdown(markdown_dir, loc.transcription, loc.proofread_result,
                                     loc.summary, loc.sanitized_filename_base, Source.date)
          IN  IF outcome = "error"
              THEN /\ loc' = Caught(l, "save")
                   /\ SummaryFailure(Msg("could not write the document"))
                   /\ UNCHANGED markdown_dir
              ELSE /\ markdown_dir' = saved.dir
                   /\ loc' = [l EXCEPT !.output_markdown_filename =
                                         Some(saved.markdown_filename)]
                   /\ log' = log_processed_file(log, original_audio_path,
                                                Some(saved.markdown_filename),
                                                "summary_success", None)
                   /\ pc' = "move"
  /\ UNCHANGED <<cfg, run, enable_masking, audio_files_to_process, original_audio_path,
                 lp, processing_dir, done_dir, short_cache, chunk_dirs, remote, harness>>

\* lines 640-653: the source is moved into the done directory
Move ==
  /\ pc = "move"
  /\ \E outcome \in {"ok", "error"} :
       /\ Inflict(outcome)
       /\ IF outcome = "ok"
          THEN /\ loc' = Entered(loc, "move")
               /\ processing_dir' = Drop(processing_dir, original_audio_path)
               /\ done_dir' = [done_dir EXCEPT !.audio = Put(@, original_audio_path, Source)]
               /\ UNCHANGED log
          ELSE /\ loc' = Caught(Entered(loc, "move"), "move")
               /\ log' = log_processed_file(log, original_audio_path,
                                            loc.output_markdown_filename,
                                            "move_to_done_failure",
                                            Msg("Failed to move to done"))
               /\ UNCHANGED <<processing_dir, done_dir>>
  /\ pc' = "cleanup"
  /\ UNCHANGED <<cfg, run, enable_masking, audio_files_to_process, original_audio_path,
                 lp, markdown_dir, short_cache, chunk_dirs, remote, harness>>

\* lines 655-661: the chunk directory is removed
Cleanup ==
  /\ pc = "cleanup"
  /\ IF loc.cleanup_temp_dir_on_success /\ Stem \in DOMAIN chunk_dirs
     THEN \E outcome \in {"ok", "error"} :
            /\ Inflict(outcome)
            /\ chunk_dirs' = IF outcome = "ok" THEN Drop(chunk_dirs, Stem) ELSE chunk_dirs
            /\ loc' = IF outcome = "ok" THEN Entered(loc, "cleanup")
                      ELSE Caught(Entered(loc, "cleanup"), "cleanup")
     ELSE /\ loc' = Entered(loc, "cleanup")
          /\ UNCHANGED <<chunk_dirs, faults>>
  /\ pc' = "loop"
  /\ UNCHANGED <<cfg, run, enable_masking, audio_files_to_process, original_audio_path,
                 lp, processing_dir, done_dir, markdown_dir, short_cache, remote, log,
                 harness>>

\* the process is killed between two steps of a run
Running ==
  {"loop", "transcribe", "gemini", "chunk", "save_transcript", "mask", "proofread",
   "summarize", "filename", "save", "move", "cleanup"}

Crash ==
  /\ pc \in Running
  /\ pc' = "crashed"
  /\ Inflict("killed")
  /\ UNCHANGED <<cfg, run, enable_masking, audio_files_to_process, original_audio_path,
                 fileVars, fsVars, harness>>

(***************************************************************************)
(* The program from its start: every configuration, one recording in the   *)
(* processing directory, nothing produced yet.                             *)
(***************************************************************************)
TranscribeEngines == {"whisper", "gemini", "both", "other"}

ProofreadEngines == {"none", "claude", "gemini"}

SummarizeEngines == {"claude", "gemini"}

Everything == {"genai", "GOOGLE_API_KEY", "pydub", "mlx_whisper", "claude"}

\* everything installed, or everything but one
Installations == {Everything} \cup {Everything \ {x} : x \in Everything}

Configs ==
  [transcribe_engine : TranscribeEngines, proofread_engine : ProofreadEngines,
   summarize_engine : SummarizeEngines, ENABLE_MASKING : BOOLEAN,
   installed : Installations,
   CHUNK_MAX_DURATION_MS : {CHUNK_MAX_DURATION_MS}, OVERLAP_MS : {OVERLAP_MS}]

Minute == 60 * 1000

\* what is said in a recording: nothing, two words a carriage return apart,
\* an e-mail address
Words ==
  {<<>>, <<"a", "CR", "b">>, <<"a", "@", "b", ".", "c">>}

DATE == <<"2", "0", "2", "6", "0", "1", "0", "2">>

Recordings ==
  {Audio(20 * Minute, w, DATE) : w \in Words}
    \cup {Audio(45 * Minute, <<"a", "CR", "b">>, DATE)}

RecordingName == [stem |-> "rec", ext |-> "mp3"]

Directories == {RecordingName :> a : a \in Recordings}

Idle ==
  /\ pc = "idle"
  /\ run = 0
  /\ enable_masking = FALSE
  /\ audio_files_to_process = <<>>
  /\ original_audio_path = NoFile
  /\ loc = FreshLoc
  /\ lp = FreshLoop
  /\ done_dir = EmptyDone
  /\ markdown_dir = <<>>
  /\ short_cache = <<>>
  /\ chunk_dirs = <<>>
  /\ remote = {}
  /\ log = <<>>

Init ==
  /\ cfg \in Configs
  /\ processing_dir \in Directories
  /\ Idle
  /\ harness = NoHarness
  /\ faults = 0

Next ==
  \/ StartRun
  \/ NextFile
  \/ TranscribeWhisper
  \/ TranscribeUnknown
  \/ TranscribeGemini
  \/ ChunkIter
  \/ SaveTranscript
  \/ Mask
  \/ Proofread
  \/ Summarize
  \/ GenerateFilename
  \/ Save
  \/ Move
  \/ Cleanup
  \/ Crash

Spec == Init /\ [][Next]_vars

(***************************************************************************)
(* The chunk loop on its own: one long recording of any duration up to     *)
(* MaxMinutes, transcribed by Gemini, up to the return of                  *)
(* transcribe_audio_gemini.                                                *)
(***************************************************************************)
MaxMinutes == 90

\* a whole number of minutes, one millisecond more, or one millisecond less
LongDurations ==
  {d \in {m * Minute + e : m \in 20..MaxMinutes, e \in {-1, 0, 1}} :
     d > CHUNK_MAX_DURATION_MS}

\* the defaults of the environment variables (lines 453-457), with Gemini
\* for the transcription
GeminiConfig ==
  [transcribe_engine |-> "gemini", proofread_engine |-> "none",
   summarize_engine |-> "claude", ENABLE_MASKING |-> TRUE, installed |-> Everything,
   CHUNK_MAX_DURATION_MS |-> CHUNK_MAX_DURATION_MS, OVERLAP_MS |-> OVERLAP_MS]

InitChunk ==
  /\ cfg = GeminiConfig
  /\ processing_dir \in {RecordingName :> Audio(d, <<"a", "b">>, DATE) : d \in LongDurations}
  /\ Idle
  /\ harness = NoHarness
  /\ faults = 0

NextChunk ==
  \/ StartRun
  \/ NextFile
  \/ TranscribeGemini
  \/ ChunkIter

SpecChunk == InitChunk /\ [][NextChunk]_vars

(***************************************************************************)
(* The pure functions applied on their own.  The program is at rest; the   *)
(* harness holds the argument of a call and, after it, what it returned.   *)
(***************************************************************************)
\* the defaults of the environment variables (lines 453-457)
DefaultConfig == [GeminiConfig EXCEPT !.transcribe_engine = "whisper"]

AtRest ==
  /\ cfg = DefaultConfig
  /\ processing_dir = <<>>
  /\ Idle
  /\ faults = 0

\* n times the character c
Repeat(c, n) == [j \in 1..n |-> c]

\* sanitize_filename: suggestions around the maximum length, between ends
\* that are stripped, removed or collapsed
MaxTitle == 51

TitleEnds == {<<>>, <<" ">>, <<"_">>, <<"?">>, <<"_", "b">>, <<"-", "/">>}

TitleLengths ==
  {0, 1, MAX_FILENAME_LENGTH - 2, MAX_FILENAME_LENGTH - 1, MAX_FILENAME_LENGTH, MaxTitle}

Candidates ==
  {None} \cup {Some(pre \o Repeat("a", n) \o suf) :
                 pre \in TitleEnds, n \in TitleLengths, suf \in TitleEnds}

InitSanitize ==
  /\ harness \in {[fn |-> "sanitize_filename", filename_suggestion |-> c,
                   returned |-> None] : c \in Candidates}
  /\ AtRest

\* sanitized_filename_base = sanitize_filename(suggested_filename_base) (line 625)
SanitizeCall ==
  /\ harness.fn = "sanitize_filename"
  /\ harness.returned.isNone
  /\ harness' = [harness EXCEPT !.returned =
                   Some(sanitize_filename(harness.filename_suggestion,
                                          MAX_FILENAME_LENGTH))]
  /\ UNCHANGED <<cfgVars, runVars, fileVars, fsVars, faults>>

SpecSanitize == InitSanitize /\ [][SanitizeCall]_vars

\* masking: transcripts made of up to MaxFragments fragments
MaxFragments == 3

Fragments ==
  {<<"a", "@">>, <<"0", "1", " ", "2", "3", "4", "5">>, <<".", "c">>,
   <<"P", "I", "N", " ">>,
   <<"0", "9", "0", "-", "1", "2", "3", "4", "-", "5", "6", "7", "8">>,
   <<" ">>,
   <<"t", "e", "s", "t", "@", "e", "x", "a", "m", "p", "l", "e", ".", "c", "o", "m">>}

RECURSIVE Texts(_)
Texts(n) ==
  IF n = 0 THEN {<<>>}
  ELSE LET shorter == Texts(n - 1)
       IN  shorter \cup {t \o f : t \in shorter, f \in Fragments}

InitMask ==
  /\ harness \in {[fn |-> "mask_sensitive_info", transcription |-> t, calls |-> 0,
                   text_for_llm |-> <<>>, masked_count |-> 0, again |-> <<>>] :
                    t \in Texts(MaxFragments)}
  /\ AtRest

\* Step 2 of main with masking enabled (lines 595-598)
MaskCall ==
  /\ harness.fn = "mask_sensitive_info"
  /\ harness.calls = 0
  /\ LET step == Step2(harness.transcription, TRUE, 0)
     IN  harness' = [harness EXCEPT !.calls = 1,
                                    !.text_for_llm = step.text_for_llm,
                                    !.masked_count = step.masked_count]
  /\ UNCHANGED <<cfgVars, runVars, fileVars, fsVars, faults>>

\* mask_sensitive_info applied to its own result
MaskAgain ==
  /\ harness.fn = "mask_sensitive_info"
  /\ harness.calls = 1
  /\ harness' = [harness EXCEPT !.calls = 2,
                                !.again = mask_sensitive_info(harness.text_for_llm)]
  /\ UNCHANGED <<cfgVars, runVars, fileVars, fsVars, faults>>

NextMask ==
  \/ MaskCall
  \/ MaskAgain

SpecMask == InitMask /\ [][NextMask]_vars

\* save_markdown: up to MaxDocuments documents saved into one directory
MaxDocuments == 4

SaveTitles == {<<"t">>, <<"t", "_", "1">>, UNTITLED}

SaveTexts == {<<"a">>, <<"b">>}

InitSave ==
  /\ harness = [fn |-> "save_markdown", calls |-> 0]
  /\ AtRest

\* output_markdown_filename = save_markdown(...) (lines 630-633)
SaveCall ==
  /\ harness.fn = "save_markdown"
  /\ harness.calls < MaxDocuments
  /\ \E title \in SaveTitles, transcription \in SaveTexts, proofread \in SaveTexts :
       LET saved == save_markdown(markdown_dir, transcription, proofread, <<"s">>,
                                  title, DATE)
       IN  /\ markdown_dir' = saved.dir
           /\ harness' = [fn |-> "save_markdown", calls |-> harness.calls + 1,
                          before |-> markdown_dir,
                          base_name |-> DATE \o <<"_">> \o title,
                          content |-> ContentParts(transcription, proofread, <<"s">>),
                          returned |-> saved.markdown_filename]
  /\ UNCHANGED <<cfgVars, runVars, fileVars, processing_dir, done_dir, short_cache,
                 chunk_dirs, remote, log, faults>>

SpecSave == InitSave /\ [][SaveCall]_vars

(***************************************************************************)
(* A batch: two short recordings in the processing directory, so that a    *)
(* file comes after the one being processed.                               *)
(***************************************************************************)
BatchConfigs ==
  {c \in Configs : /\ c.transcribe_engine \in {"whisper", "gemini"}
                   /\ c.proofread_engine \in {"none", "claude"}
                   /\ c.ENABLE_MASKING}

BatchNames == {[stem |-> "a", ext |-> "mp3"], [stem |-> "b", ext |-> "wav"]}

BatchDirectory == [n \in BatchNames |-> Audio(20 * Minute, <<n.stem>>, DATE)]

InitBatch ==
  /\ cfg \in BatchConfigs
  /\ processing_dir = BatchDirectory
  /\ Idle
  /\ harness = NoHarness
  /\ faults = 0

NextBatch ==
  \/ StartRun
  \/ NextFile
  \/ TranscribeWhisper
  \/ TranscribeGemini
  \/ SaveTranscript
  \/ Mask
  \/ Proofread
  \/ Summarize
  \/ GenerateFilename
  \/ Save
  \/ Move
  \/ Cleanup
  \/ Crash

SpecBatch == InitBatch /\ [][NextBatch]_vars

(***************************************************************************)
(* The engine identifiers: PROOFREAD_ENGINE and SUMMARIZE_ENGINE take any  *)
(* string of the environment (lines 454-455), also one that no stage       *)
(* knows; the recording is transcribed by Whisper.                         *)
(***************************************************************************)
EngineConfigs ==
  [transcribe_engine : {"whisper"},
   proofread_engine : ProofreadEngines \cup {"other"},
   summarize_engine : SummarizeEngines \cup {"other"},
   ENABLE_MASKING : BOOLEAN, installed : {Everything},
   CHUNK_MAX_DURATION_MS : {CHUNK_MAX_DURATION_MS}, OVERLAP_MS : {OVERLAP_MS}]

InitEngines ==
  /\ cfg \in EngineConfigs
  /\ processing_dir = RecordingName :> Audio(20 * Minute, <<"a", "@", "b", ".", "c">>, DATE)
  /\ Idle
  /\ harness = NoHarness
  /\ faults = 0

NextEngines ==
  \/ StartRun
  \/ NextFile
  \/ TranscribeWhisper
  \/ SaveTranscript
  \/ Mask
  \/ Proofread
  \/ Summarize
  \/ GenerateFilename
  \/ Save
  \/ Move
  \/ Cleanup
  \/ Crash

SpecEngines == InitEngines /\ [][NextEngines]_vars

(***************************************************************************)
(* The claims.                                                             *)
(***************************************************************************)
UsesWhisper == cfg.transcribe_engine \in {"whisper", "both"}

UsesGemini == cfg.transcribe_engine \in {"gemini", "both"}

\* the step in which step 1 of main ends with the transcript of a source of
\* at most CHUNK_MAX_DURATION_MS
ShortReturn ==
  /\ pc \in {"transcribe", "gemini"}
  /\ pc' = "save_transcript"
  /\ Source.duration_ms <= cfg.CHUNK_MAX_DURATION_MS

\* what transcribe_audio_gemini returned, taken out of main's transcription
GeminiPart(l) ==
  IF cfg.transcribe_engine = "both"
  THEN SubSeq(l.transcription,
              Len(BothTranscription(l.whisper_transcription, <<>>)) + 1,
              Len(l.transcription))
  ELSE l.transcription

Range(t) == {t[j] : j \in DOMAIN t}

WithoutLineEnds(t) == SelectSeq(t, LAMBDA c : c \notin {"CR", "LF"})

C2_ResumeReturnsSameTranscript ==
  [][(pc = "chunk" /\ pc' = "save_transcript" /\ run > 1) =>
       /\ lp'.uploaded \cap lp'.cached = {}
       /\ lp'.uploaded = (1..lp'.chunk_id) \ lp'.cached
       /\ loc' =
            Transcribed(loc', Uninterrupted(Source, cfg.CHUNK_MAX_DURATION_MS,
                                            cfg.OVERLAP_MS))]_vars

\* C3: for a source longer than CHUNK_MAX_DURATION_MS the first chunk starts
\* at 0, every chunk after the first starts OVERLAP_MS before the end of the
\* one before it, the starts strictly increase so that the number of chunks
\* is bounded by the duration (the loop terminates), and when the loop has
\* returned the last chunk ends at the duration.
C3_ChunkBoundaries ==
  lp.duration_ms > CHUNK_MAX_DURATION_MS =>
    LET c == lp.chunks
    IN  /\ c # <<>> => c[1].start_ms = 0
        /\ \A k \in 1..(Len(c) - 1) :
             /\ c[k + 1].start_ms = c[k].end_ms - OVERLAP_MS
             /\ c[k + 1].start_ms > c[k].start_ms
        /\ c # <<>> =>
             c[Len(c)].start_ms = (Len(c) - 1) * (CHUNK_MAX_DURATION_MS - OVERLAP_MS)
        /\ c # <<>> => c[Len(c)].start_ms < lp.duration_ms
        /\ pc = "save_transcript" => c # <<>> /\ c[Len(c)].end_ms = lp.duration_ms

\* the loop has returned after five chunks of a recording that is not a whole
\* number of minutes long
C3_Witness ==
  /\ pc = "save_transcript"
  /\ Len(lp.chunks) = 5
  /\ lp.duration_ms % Minute # 0
  /\ lp.chunks[5].end_ms = lp.duration_ms

\* C4: every chunk is at most CHUNK_MAX_DURATION_MS long and lies within the
\* recording, the first starts at 0, no chunk starts after the end of the one
\* before it, and when the loop has returned the last ends at the duration;
\* a 45-minute source gives exactly [0,20), [19,39), [38,45) minutes.
C4_ChunksCoverSource ==
  lp.duration_ms > CHUNK_MAX_DURATION_MS =>
    LET c == lp.chunks
    IN  /\ \A k \in DOMAIN c :
             /\ 0 <= c[k].start_ms
             /\ c[k].start_ms < c[k].end_ms
             /\ c[k].end_ms <= lp.duration_ms
             /\ c[k].end_ms - c[k].start_ms <= CHUNK_MAX_DURATION_MS
        /\ c # <<>> => c[1].start_ms = 0
        /\ \A k \in 1..(Len(c) - 1) : c[k + 1].start_ms <= c[k].end_ms
        /\ pc = "save_transcript" => c # <<>> /\ c[Len(c)].end_ms = lp.duration_ms
        /\ (pc = "save_transcript" /\ lp.duration_ms = 45 * Minute) =>
             c = << [start_ms |-> 0, end_ms |-> 20 * Minute],
                    [start_ms |-> 19 * Minute, end_ms |-> 39 * Minute],
                    [start_ms |-> 38 * Minute, end_ms |-> 45 * Minute] >>

\* the loop has returned for a 45-minute source, after three chunks
C4_Witness ==
  /\ pc = "save_transcript"
  /\ lp.duration_ms = 45 * Minute
  /\ Len(lp.chunks) = 3
  /\ lp.uploaded = {1, 2, 3}

\* the name save_markdown probes j-th for base_name
ProbedName(base_name, j) ==
  IF j = 0 THEN MdName(base_name) ELSE MdName(base_name \o <<"_">> \o Str(j))

\* C5: save_markdown writes to a name that no file had, every document there
\* before the call is still there with its content, the new document holds
\* what was saved, and the name is the first unused one of base.md, base_1.md,
\* base_2.md, ...: base_1.md when only base.md was taken.
C5_SaveNeverOverwrites ==
  (harness.fn = "save_markdown" /\ harness.calls > 0) =>
    LET unused == {j \in 0..MaxDocuments :
                     ProbedName(harness.base_name, j) \notin DOMAIN harness.before}
    IN  /\ harness.returned \notin DOMAIN harness.before
        /\ \A f \in DOMAIN harness.before :
             f \in DOMAIN markdown_dir /\ markdown_dir[f] = harness.before[f]
        /\ DOMAIN markdown_dir = DOMAIN harness.before \cup {harness.returned}
        /\ markdown_dir[harness.returned] = harness.content
        /\ harness.returned = ProbedName(harness.base_name, Min(unused))
        /\ (MdName(harness.base_name) \in DOMAIN harness.before
              /\ ProbedName(harness.base_name, 1) \notin DOMAIN harness.before)
             => harness.returned = ProbedName(harness.base_name, 1)

\* a third document of the same date and title has been saved as base_2.md
\* beside base.md and base_1.md
C5_Witness ==
  /\ harness.fn = "save_markdown"
  /\ harness.calls = 3
  /\ harness.base_name = DATE \o <<"_", "t">>
  /\ harness.returned = ProbedName(harness.base_name, 2)
  /\ {ProbedName(harness.base_name, 0), ProbedName(harness.base_name, 1)}
       = DOMAIN harness.before

\* C6, as stated: whatever the candidate, the sanitized title is at most
\* MAX_FILENAME_LENGTH long, holds no path-illegal character, neither begins
\* nor ends with a separator, and is not empty, the fallback standing in for
\* an empty or missing candidate.
C6_SanitizedTitle ==
  (harness.fn = "sanitize_filename" /\ ~harness.returned.isNone) =>
    LET title == harness.returned.text
        candidate == harness.filename_suggestion
    IN  /\ Len(title) <= MAX_FILENAME_LENGTH
        /\ Range(title) \cap Illegal = {}
        /\ title # <<>>
        /\ title[1] \notin Separator
        /\ title[Len(title)] \notin Separator
        /\ (candidate.isNone \/ candidate.text = <<>>) => title = UNTITLED

\* C7, as stated: masking the result of masking returns it unchanged.
C7_MaskIdempotent ==
  (harness.fn = "mask_sensitive_info" /\ harness.calls = 2) =>
    harness.again = harness.text_for_llm

PHONE == <<"0", "9", "0", "-", "1", "2", "3", "4", "-", "5", "6", "7", "8">>

EMAIL == <<"t", "e", "s", "t", "@", "e", "x", "a", "m", "p", "l", "e", ".", "c", "o", "m">>

\* C8, as stated: the count the masking step reports is the number of
\* replacements the rules performed; for 090-1234-5678 and test@example.com
\* both are replaced and the count is 2.
C8_CountIsReplacements ==
  (harness.fn = "mask_sensitive_info" /\ harness.calls >= 1) =>
    /\ harness.masked_count = Replacements(harness.transcription)
    /\ harness.transcription = PHONE \o <<" ">> \o EMAIL =>
         /\ harness.text_for_llm = MASKED \o <<" ">> \o MASKED
         /\ harness.masked_count = 2

\* the headings of a saved document
Headings(document) == {document[k].heading : k \in DOMAIN document}

\* C9, as stated: with proofreading engine none no proofreading backend is
\* called, the proofread output is the text given to the stage, and the
\* document saved has no proofread section, whatever masking did.
C9_NoneLeavesNoProofreadSection ==
  cfg.proofread_engine = "none" =>
    /\ loc.calls.proofread = 0
    /\ pc \in {"summarize", "filename", "save", "move", "cleanup"} =>
         loc.proofread_result = loc.text_for_llm
    /\ pc = "move" =>
         "proofread" \notin Headings(markdown_dir[loc.output_markdown_filename.text])

TranscribeStage == {"transcribe", "gemini", "chunk"}

LastEntry(entries) == entries[Len(entries)]

\* the statuses of a file that did not succeed
FailureStatuses ==
  {"transcribe_failure", "summary_failure", "move_to_done_failure", "failure"}

\* C11: the audio files of the done directory change only by the move stage
\* putting there the file being processed, after its summarization and its
\* save ran without an exception, with its document in the output directory
\* and its summary_success entry the last of the log; and a step that logs
\* a failure status for a file never leaves that file in the done directory.
C11_DoneOnlyAfterSuccess ==
  [][/\ (done_dir'.audio # done_dir.audio) =>
          /\ pc = "move"
          /\ DOMAIN done_dir'.audio = DOMAIN done_dir.audio \cup {original_audio_path}
          /\ original_audio_path \notin DOMAIN processing_dir'
          /\ {"summarize", "save"} \subseteq Range(loc.stages)
          /\ loc.caught \cap {"summarize", "save"} = {}
          /\ ~loc.output_markdown_filename.isNone
          /\ loc.output_markdown_filename.text \in DOMAIN markdown_dir
          /\ log # <<>>
          /\ LastEntry(log).source_audio = original_audio_path
          /\ LastEntry(log).status = "summary_success"
          /\ LastEntry(log).output_markdown = loc.output_markdown_filename
     /\ (Len(log') > Len(log) /\ LastEntry(log').status \in FailureStatuses) =>
          LastEntry(log').source_audio \notin DOMAIN done_dir'.audio]_vars

\* one file of the batch is in the done directory and the other, logged as
\* summary_failure, is in the processing directory
C11_Witness ==
  \E f \in BatchNames, g \in BatchNames :
    /\ f \in DOMAIN done_dir.audio
    /\ g \in DOMAIN processing_dir
    /\ \E k \in DOMAIN log :
         log[k].source_audio = g /\ log[k].status = "summary_failure"

\* the audio files the directory scan of the first run found
Scanned1 == DOMAIN processing_dir \cup DOMAIN done_dir.audio

\* C12, as stated: when the first run has ended after starting on a file,
\* whatever happened to that file, every audio file of the directory scan
\* has been processed and has at least one entry in the log.
C12_LaterFilesProcessed ==
  (run = 1 /\ pc \in {"exit", "aborted"} /\ original_audio_path # NoFile) =>
    /\ audio_files_to_process = <<>>
    /\ \A f \in Scanned1 : \E k \in DOMAIN log : log[k].source_audio = f

\* the stages from summarization through the move to done
LateStages == {"summarize", "filename", "save", "move"}

\* C13, as stated: a step of a stage from summarization through the move in
\* which an exception is raised ends the file: the next step takes the next
\* file, the file is not in the done directory, one entry with status
\* summary_failure, move_to_done_failure or failure is appended for it, and
\* the run has logged no summary_success for it.
C13_LateFailureIsTerminal ==
  [][(pc \in LateStages /\ loc'.caught # loc.caught) =>
       /\ pc' = "loop"
       /\ original_audio_path \notin DOMAIN done_dir'.audio
       /\ Len(log') = Len(log) + 1
       /\ LastEntry(log').source_audio = original_audio_path
       /\ LastEntry(log').status \in {"summary_failure", "move_to_done_failure", "failure"}
       /\ run = 1 => \A k \in DOMAIN log' :
                       log'[k].source_audio = original_audio_path
                         => log'[k].status # "summary_success"]_vars

\* C14, as stated: a step of the proofreading stage in which the stage
\* fails (proofread_text raises, or the claude CLI ends with a non-zero exit
\* code) goes on to summarization with exactly the text that was given to
\* the stage as the proofread result, and writes nothing to the log.
C14_ProofreadFailureFallsBack ==
  [][(pc = "proofread" /\ "proofread" \in loc'.caught \cup loc'.cli_failed) =>
       /\ pc' = "summarize"
       /\ loc'.proofread_result = loc.text_for_llm
       /\ loc'.text_for_llm = loc.text_for_llm
       /\ log' = log]_vars

\* C15, as stated: a step of the transcription stage in which an upload
\* succeeded and the generate_content call on it raised leaves no uploaded
\* artifact behind.
C15_UploadReleasedWhenGenerateRaises ==
  [][(/\ pc \in TranscribeStage
      /\ Len(log') = Len(log) + 1
      /\ LastEntry(log').error_message = Msg("generate_content failed")) =>
       remote' = {}]_vars

\* C16, as stated: when the processing of a file that has a chunk directory
\* ends, the directory is removed exactly if the file was moved to the done
\* directory (unless the removal itself failed), and is left as it was, with
\* its chunk transcripts, if the file ended in a failure.
C16_ChunkCacheRemovedIffSuccess ==
  [][(pc # "loop" /\ pc' = "loop" /\ Stem \in DOMAIN chunk_dirs) =>
       IF original_audio_path \in DOMAIN done_dir'.audio
       THEN "cleanup" \notin loc'.caught => Stem \notin DOMAIN chunk_dirs'
       ELSE /\ Stem \in DOMAIN chunk_dirs'
            /\ chunk_dirs'[Stem].text = chunk_dirs[Stem].text]_vars

\* C17, as stated: no step rewrites or removes an entry of the log, and when
\* the batch loop of the first run finishes, every audio file of the scan has
\* exactly one entry.
C17_OneEntryPerFile ==
  [][/\ Len(log') >= Len(log)
     /\ SubSeq(log', 1, Len(log)) = log
     /\ (pc = "loop" /\ pc' = "exit" /\ run = 1) =>
          \A f \in Scanned1 :
            Cardinality({k \in DOMAIN log : log[k].source_audio = f}) = 1]_vars

\* the engine identifiers that proofread_text and summarize_text know, apart
\* from "none"
KnownEngines == {"claude", "gemini"}

\* C18: the proofreading stage calls a backend once for a known identifier
\* and never otherwise; for "none" and for an unknown identifier it hands on
\* its input unchanged, logs nothing and the file goes on to summarization.
\* The summarization stage calls a backend once for a known identifier
\* (unless the prompt file could not be read) and the naming stage calls one
\* once; for an unknown identifier summarization calls none and the file ends
\* with one summary_failure entry without document, no document written and
\* the source neither moved nor removed.
C18_UnknownEngines ==
  [][/\ (pc = "proofread" /\ loc' # loc) =>
          /\ loc'.calls.proofread =
               loc.calls.proofread + (IF cfg.proofread_engine \in KnownEngines THEN 1 ELSE 0)
          /\ cfg.proofread_engine \notin KnownEngines =>
               /\ pc' = "summarize"
               /\ loc'.proofread_result = loc.text_for_llm
               /\ loc'.caught = loc.caught
               /\ log' = log
     /\ (pc = "summarize" /\ loc' # loc) =>
          IF cfg.summarize_engine \in KnownEngines
          THEN loc'.calls.summarize =
                 IF /\ pc' = "loop"
                    /\ Len(log') > Len(log)
                    /\ LastEntry(log').error_message = Msg("No such file or directory")
                 THEN loc.calls.summarize
                 ELSE loc.calls.summarize + 1
          ELSE /\ loc'.calls.summarize = loc.calls.summarize
               /\ pc' = "loop"
               /\ Len(log') = Len(log) + 1
               /\ LastEntry(log').source_audio = original_audio_path
               /\ LastEntry(log').status = "summary_failure"
               /\ LastEntry(log').output_markdown = None
               /\ markdown_dir' = markdown_dir
               /\ processing_dir' = processing_dir
               /\ done_dir' = done_dir
     /\ (pc = "filename" /\ loc' # loc) =>
          loc'.calls.filename = loc.calls.filename + 1]_vars

\* with both identifiers unknown, the masked text has passed the proofreading
\* stage unchanged without a backend call, and the file has ended with
\* summary_failure, in the processing directory and without a document
C18_Witness ==
  /\ pc = "loop"
  /\ cfg.proofread_engine = "other"
  /\ cfg.summarize_engine = "other"
  /\ loc.masked_count > 0
  /\ loc.proofread_result = loc.text_for_llm
  /\ loc.calls.proofread = 0
  /\ loc.calls.summarize = 0
  /\ LastEntry(log).status = "summary_failure"
  /\ original_audio_path \in DOMAIN processing_dir
  /\ DOMAIN markdown_dir = {}

\* C19, as stated: when the first run is ended by a missing backend, no
\* transcription backend has been called and no transcript, cache, document
\* or moved file exists.
C19_AbortBeforeAnyFile ==
  (run = 1 /\ pc = "aborted") =>
    /\ loc.calls.whisper = 0
    /\ loc.calls.upload = 0
    /\ loc.calls.generate = 0
    /\ done_dir = EmptyDone
    /\ DOMAIN markdown_dir = {}
    /\ DOMAIN short_cache = {}
    /\ DOMAIN chunk_dirs = {}

\* the stages of a file, in their order
StageOrder ==
  <<"transcribe", "mask", "proofread", "summarize", "name", "save", "move", "cleanup">>

\* the position of a stage in the order
StageIndex(stage) == CHOOSE k \in DOMAIN StageOrder : StageOrder[k] = stage

\* the stages of a file occurred in strict forward order, each at most once
Forward(stages) ==
  \A i \in DOMAIN stages, j \in DOMAIN stages :
    i < j => StageIndex(stages[i]) < StageIndex(stages[j])

\* C20, as stated: the stages a file went through are in strict forward
\* order, each at most once, a step extends them or starts a new file; the
\* summary_success entry is appended and the chunk directory is removed only
\* after the move stage has completed.
C20_StrictStageOrder ==
  [][/\ Forward(loc'.stages)
     /\ \/ loc'.stages = <<>>
        \/ /\ Len(loc'.stages) >= Len(loc.stages)
           /\ SubSeq(loc'.stages, 1, Len(loc.stages)) = loc.stages
     /\ (Len(log') > Len(log) /\ LastEntry(log').status = "summary_success") =>
          /\ "move" \in Range(loc'.stages)
          /\ original_audio_path \in DOMAIN done_dir'.audio
     /\ (DOMAIN chunk_dirs' \subseteq DOMAIN chunk_dirs /\ DOMAIN chunk_dirs' # DOMAIN chunk_dirs) =>
          "move" \in Range(loc.stages)]_vars

(***************************************************************************)
(* The chunk loop under other values of the two module constants (lines    *)
(* 22-23), among them OVERLAP_MS >= CHUNK_MAX_DURATION_MS.  The loop has no *)
(* bound of its own, so the iterations followed are capped.                *)
(***************************************************************************)
MaxIterations == 6

MaxOverlapMinutes == 45

OverlapConfigs ==
  {[GeminiConfig EXCEPT !.CHUNK_MAX_DURATION_MS = chunk_max, !.OVERLAP_MS = overlap_ms] :
     chunk_max \in {10 * Minute, CHUNK_MAX_DURATION_MS},
     overlap_ms \in {OVERLAP_MS, 10 * Minute, 20 * Minute, 30 * Minute}}

InitOverlap ==
  /\ cfg \in OverlapConfigs
  /\ processing_dir \in
       {RecordingName :> Audio(m * Minute, <<"a", "b">>, DATE) : m \in 21..MaxOverlapMinutes}
  /\ Idle
  /\ harness = NoHarness
  /\ faults = 0

\* while start_ms < duration_ms: ... (lines 260-294), followed for
\* MaxIterations iterations
ChunkIterCapped ==
  /\ lp.chunk_id < MaxIterations
  /\ ChunkIter

NextOverlap ==
  \/ StartRun
  \/ NextFile
  \/ TranscribeGemini
  \/ ChunkIterCapped

SpecOverlap == InitOverlap /\ [][NextOverlap]_vars

\* C21: whatever the values of OVERLAP_MS and CHUNK_MAX_DURATION_MS, an
\* iteration of the chunk loop either leaves the loop or goes on to the next
\* iteration with a start_ms strictly greater than the one it had.
C21_StartAdvancesOrLoopExits ==
  [][(pc = "chunk" /\ pc' = "chunk") => lp'.start_ms > lp.start_ms]_vars

(***************************************************************************)
(* C22: a timeout of the claude CLI.                                       *)
(***************************************************************************)
\* the first section of a saved document is the summary, and it is empty
EmptySummarySaved(dir, name) ==
  /\ ~name.isNone
  /\ name.text \in DOMAIN dir
  /\ dir[name.text][1] = [heading |-> "summary", body |-> <<>>]

\* the file went on from the stage without being killed and without an
\* exception raised in the step
WentOn == pc' # "crashed" /\ loc'.caught = loc.caught

\* C22: a timeout of the claude CLI is empty output and not a failure.  When
\* the summarization call times out, the summary is the empty string, nothing
\* is logged and the file goes on to the naming; from there, unless the
\* process is killed or a later stage raises, it is named, saved as a
\* document whose summary is empty, logged as summary_success and moved to
\* the done directory, with no other log entry.  When the proofreading call
\* times out, the proofread result is the empty string, and the empty string
\* (not text_for_llm) is what the summarization backend is sent.
C22_TimeoutIsEmptyOutput ==
  [][/\ (pc = "summarize" /\ "summarize" \in loc'.timed_out)
          => /\ loc'.summary = <<>>
             /\ pc' = "filename"
             /\ log' = log
             /\ "summarize" \notin loc'.caught
     /\ ("summarize" \in loc.timed_out /\ pc = "filename" /\ WentOn)
          => /\ pc' = "save"
             /\ log' = log
     /\ ("summarize" \in loc.timed_out /\ pc = "save" /\ WentOn)
          => /\ pc' = "move"
             /\ Len(log') = Len(log) + 1
             /\ LastEntry(log').status = "summary_success"
             /\ LastEntry(log').output_markdown = loc'.output_markdown_filename
             /\ EmptySummarySaved(markdown_dir', loc'.output_markdown_filename)
     /\ ("summarize" \in loc.timed_out /\ pc = "move" /\ WentOn)
          => /\ original_audio_path \in DOMAIN done_dir'.audio
             /\ original_audio_path \notin DOMAIN processing_dir'
             /\ log' = log
     /\ (pc = "proofread" /\ "proofread" \in loc'.timed_out)
          => /\ loc'.proofread_result = <<>>
             /\ pc' = "summarize"
             /\ log' = log
     /\ ("proofread" \in loc.timed_out /\ pc = "summarize"
           /\ ~loc'.sent.summarize.isNone)
          => loc'.sent.summarize = Some(<<>>)
    ]_vars

\* the summarization timed out and the file was named, saved with an empty
\* summary, logged as summary_success and moved
C22_Witness ==
  /\ pc = "cleanup"
  /\ "summarize" \in loc.timed_out
  /\ loc.caught = {}
  /\ loc.summary = <<>>
  /\ EmptySummarySaved(markdown_dir, loc.output_markdown_filename)
  /\ Len(log) = 1
  /\ LastEntry(log).status = "summary_success"
  /\ original_audio_path \in DOMAIN done_dir.audio

\* the proofreading of a non-empty text timed out and the summarization
\* backend was sent the empty string
C22_ProofreadTimeoutReached ==
  /\ "proofread" \in loc.timed_out
  /\ loc.text_for_llm # <<>>
  /\ loc.sent.proofread = Some(loc.text_for_llm)
  /\ loc.sent.summarize = Some(<<>>)

(***************************************************************************)
(* C23: what the masking lets through.  The characters of a transcript     *)
(* are followed through the eight re.sub calls of mask_sensitive_info: a   *)
(* character of the result is either a character of the transcript, kept   *)
(* at its place, or a character written by a replacement.                  *)
(***************************************************************************)
\* re.sub(rule, repl, t) on the origins: origin[p] is the position in the
\* transcript of the character t[p], or 0 for a character of a placeholder
SubOrigins(rule, t, origin) ==
  LET n == Len(t)
      Pieces(m, at) ==
        [p \in 1..n |->
           IF p \notin at THEN <<>>
           ELSE IF m[p] = <<>> THEN <<origin[p]>>
           ELSE (IF rule.keep THEN SubSeq(origin, p, m[p][2] - 1) ELSE <<>>)
                  \o [j \in 1..Len(rule.repl) |-> 0]]
  IN  Only({Only({Flatten(piece, 1, n) :
                    piece \in {Pieces(m, Visited([p \in 1..n |->
                                                   IF m[p] = <<>> THEN p + 1 ELSE m[p][1]],
                                                 n))}}) :
              m \in {[p \in 1..n |-> MatchBranches(rule, 1, t, p)]}})

\* the origins of the characters of the text after rules k.. of MaskRules
RECURSIVE OriginsAfter(_, _, _)
OriginsAfter(t, origin, k) ==
  IF k > Len(MaskRules) THEN origin
  ELSE Only({OriginsAfter(next.text, next.origin, k + 1) :
               next \in {[text |-> Sub(MaskRules[k], t),
                          origin |-> SubOrigins(MaskRules[k], t, origin)]}})

\* the positions of a transcript whose character no rule replaced
Unmasked(transcription) ==
  {p \in Range(OriginsAfter(transcription, [p \in 1..Len(transcription) |-> p], 1)) :
     p # 0}

\* the masked spans of a transcript: its positions that a rule replaced
MaskedSpans(transcription) == (1..Len(transcription)) \ Unmasked(transcription)

(***************************************************************************)
(* Two runs with masking enabled, each on its own transcript, up to the    *)
(* call of the proofreading backend.                                       *)
(***************************************************************************)
MaxPieces == 2

\* an e-mail address, a telephone number, the end of an address, a letter,
\* a space
Pieces ==
  {<<"a", "a", "@", "b", ".", "c">>, <<"0", "1", "2", "3", "4", "5">>,
   <<"J_ken", "a", "b">>, <<"x">>, <<" ">>}

RECURSIVE Transcripts(_)
Transcripts(n) ==
  IF n = 0 THEN {<<>>}
  ELSE LET shorter == Transcripts(n - 1)
       IN  shorter \cup {t \o f : t \in shorter, f \in Pieces}

InitTwoRuns ==
  /\ harness \in {[fn |-> "two_runs", transcription |-> <<t1, t2>>, calls |-> 0,
                   sent |-> <<None, None>>, masked_spans |-> <<{}, {}>>] :
                    t1, t2 \in Transcripts(MaxPieces)}
  /\ AtRest

\* Steps 2 and 3 of main with masking enabled, up to the call of the
\* proofreading backend (lines 595-607, 331-343)
RunOnce ==
  /\ harness.fn = "two_runs"
  /\ harness.calls < 2
  /\ LET k == harness.calls + 1
         transcription == harness.transcription[k]
         step == Step2(transcription, TRUE, 0)
         called == Sent(FreshLoc, "proofread", step.text_for_llm)
     IN  harness' = [harness EXCEPT !.calls = k,
                                    !.sent[k] = called.sent.proofread,
                                    !.masked_spans[k] = MaskedSpans(transcription)]
  /\ UNCHANGED <<cfgVars, runVars, fileVars, fsVars, faults>>

SpecTwoRuns == InitTwoRuns /\ [][RunOnce]_vars

\* the two transcripts have the same masked spans and are equal outside them
DifferOnlyInsideMaskedSpans ==
  LET t1 == harness.transcription[1]
      t2 == harness.transcription[2]
  IN  /\ Len(t1) = Len(t2)
      /\ harness.masked_spans[1] = harness.masked_spans[2]
      /\ \A p \in 1..Len(t1) : t1[p] # t2[p] => p \in harness.masked_spans[1]

\* C23: with masking enabled, two runs whose raw transcripts differ only
\* inside masked spans send the same input to the proofreading backend.
C23_MaskedSpansDoNotReachProofreading ==
  (harness.fn = "two_runs" /\ harness.calls = 2 /\ DifferOnlyInsideMaskedSpans)
    => harness.sent[1] = harness.sent[2]

(***************************************************************************)
(* Sources that share a stem: a.mp3 and a.wav side by side in the          *)
(* processing directory, each short or long, and a new recording that      *)
(* arrives between two runs under the name a.mp3.                          *)
(***************************************************************************)
StemConfigs ==
  {[GeminiConfig EXCEPT !.transcribe_engine = e] : e \in {"whisper", "gemini"}}

Mp3 == [stem |-> "a", ext |-> "mp3"]

Wav == [stem |-> "a", ext |-> "wav"]

\* what is said in a.mp3, in a.wav and in the new recording
Said == (Mp3 :> <<"a">>) @@ (Wav :> <<"b">>)

SaidLater == <<"c">>

StemDirectories ==
  {[n \in {Mp3, Wav} |-> Audio(minutes[n] * Minute, Said[n], DATE)] :
     minutes \in [{Mp3, Wav} -> {20, 45}]}

InitStems ==
  /\ cfg \in StemConfigs
  /\ processing_dir \in StemDirectories
  /\ Idle
  /\ harness = NoHarness
  /\ faults = 0

\* between two runs, a new short recording is put into the processing
\* directory under the name a.mp3, once
NewRecording ==
  /\ pc \in {"exit", "aborted", "crashed"}
  /\ Mp3 \notin DOMAIN processing_dir
  /\ LET new == Audio(20 * Minute, SaidLater, DATE)
     IN  /\ \A n \in DOMAIN done_dir.audio : done_dir.audio[n] # new
         /\ processing_dir' = Put(processing_dir, Mp3, new)
  /\ UNCHANGED <<cfg, runVars, fileVars, done_dir, markdown_dir, short_cache, chunk_dirs,
                 remote, log, harness, faults>>

NextStems ==
  \/ StartRun
  \/ NextFile
  \/ TranscribeWhisper
  \/ TranscribeGemini
  \/ ChunkIter
  \/ SaveTranscript
  \/ Mask
  \/ Proofread
  \/ Summarize
  \/ GenerateFilename
  \/ Save
  \/ Move
  \/ Cleanup
  \/ Crash
  \/ NewRecording

SpecStems == InitStems /\ [][NextStems]_vars

\* what the transcription of the whole of a source, or of a chunk of it,
\* reads back as from a cache file: the text of a complete export, of an
\* incomplete one, or of a file whose writing was cut short
OwnTranscripts(source) ==
  {ReadText(WriteText(GeminiText(Segment(source, 0, source.duration_ms, complete)))) :
     complete \in BOOLEAN} \cup {<<>>}

\* C24: a cached transcript that is reused for a source was produced from
\* that source's audio.  When the whole-file cache is read instead of
\* calling the backend, and when a chunk transcript is read instead of
\* calling the backend, the text read is a transcript of the source being
\* processed.
C24_CacheReusedOnlyForItsSource ==
  [][/\ (pc \in {"transcribe", "gemini"} /\ lp'.cache_hit)
          => loc'.transcription \in OwnTranscripts(Source)
     /\ (pc = "chunk" /\ lp'.chunk_id = lp.chunk_id + 1
           /\ lp'.chunk_id \notin lp'.uploaded
           /\ Len(lp'.all_transcriptions) = lp'.chunk_id)
          => lp'.all_transcriptions[lp'.chunk_id] \in OwnTranscripts(Source)
    ]_vars

\* C25: files already in the done directory are never replaced or lost.  No
\* step removes a source file or a transcript file from the done directory
\* or changes what it holds.
C25_DoneFilesKept ==
  [][/\ \A n \in DOMAIN done_dir.audio :
          n \in DOMAIN done_dir'.audio /\ done_dir'.audio[n] = done_dir.audio[n]
     /\ \A s \in DOMAIN done_dir.transcripts :
          /\ s \in DOMAIN done_dir'.transcripts
          /\ done_dir'.transcripts[s] = done_dir.transcripts[s]
    ]_vars
====
